---- MODULE Spec2Model ----
(***************************************************************************)
(* Model of scripts/smart_crop.py: the layout classifier, the face         *)
(* detection loop with identity matching, speaker-side binding, the        *)
(* subject selector, gap prediction, adaptive smoothing, per-frame         *)
(* interpolation, the segment builder with short-segment merging and the   *)
(* output encoder.                                                         *)
(*                                                                         *)
(* Representation.  Times are integers in units of 1/TicksPerSec second    *)
(* (the script rounds every emitted time to 4 decimals).  smoothed_x, a    *)
(* Python float, is carried in units of 1/FxScale pixel.  last_velocity,   *)
(* a float that is only ever an integer halved k times, is carried         *)
(* exactly as a pair <<numerator, denominator>>.  The detector, the        *)
(* diarizer and the video container are external: what they return is      *)
(* drawn from small sets.                                                  *)
(***************************************************************************)
EXTENDS Integers, Sequences, FiniteSets, TLC

VARIABLES
    pc,                    \* position in the script
    src_w, src_h,          \* frame size                       (lines 83-84)
    fps, total_f,          \* frame rate and frame count        (lines 85-86)
    cls_i,                 \* index i of the classification sample (line 170)
    sample_faces,          \* detections of the classification samples
    pip_detections,        \* sideCount
    full_detections,       \* centeredCount
    video_type,            \* "none" until decided
    diarization_segments,  \* speaker turns
    sample_k,              \* the tracking loop's t, as a count of intervals
    prev_faces,            \* previous sample's matched detections
    detected,              \* the detector's answer for the current sample
    frame_data,            \* samples: [t, faces]
    speaker_side,          \* set of <<speaker, side>> pairs (a dict)
    last_x, last_cx, last_velocity,   \* gap-prediction state
    raw_coords,            \* [t, x, face]
    smoothed_x, prev_had_face,        \* smoothing state
    coords,                \* keyframes [t, x, y, w, h, face]
    frame_coords,          \* per-frame entries
    interp_i,              \* index of the keyframe pair being interpolated
    segments,              \* [type, start, end, coords]
    output                 \* what is written to coords_path

vars == <<pc, src_w, src_h, fps, total_f, cls_i, sample_faces, pip_detections,
          full_detections, video_type, diarization_segments, sample_k,
          prev_faces, detected, frame_data, speaker_side, last_x, last_cx,
          last_velocity, raw_coords, smoothed_x, prev_had_face, coords,
          frame_coords, interp_i, segments, output>>

----------------------------------------------------------------------------
(* Bounds of the model *)

\* samples of a clip in the tracking specification
MaxSamples == 4
\* samples of a clip in the segment specification
MaxSegSamples == 17
\* changes of the detection list between consecutive samples, segment spec
MaxFlips == 2
\* changes of the detection list between consecutive classification samples
MaxClsChanges == 2
\* samples of a clip in the matching specification
MaxMatchSamples == 3

(* Program constants *)

TicksPerSec == 10000
FxScale == 100
NumClsSamples == 9
sample_interval == 1000
DEAD_ZONE == 5
SNAP_ZONE == 150
INTERP_SNAP == 150
MIN_SEG_DURATION == 15000
None == -1

----------------------------------------------------------------------------
(* Arithmetic helpers *)

Abs(a) == IF a < 0 THEN -a ELSE a
Min2(a, b) == IF a < b THEN a ELSE b
Max2(a, b) == IF a > b THEN a ELSE b

\* Python's round() of the rational n/d (d > 0, n >= 0): to nearest, ties to even
PyRound(n, d) ==
    LET q == n \div d
        r == n % d
    IN  IF 2 * r < d THEN q
        ELSE IF 2 * r > d THEN q + 1
        ELSE IF q % 2 = 0 THEN q ELSE q + 1

\* round(total_f / fps, 4) in ticks
DurationTicks(f, r) == PyRound(f * TicksPerSec, r)

----------------------------------------------------------------------------
(* Geometry: crop window *)

CropW(w, h) ==
    LET c0 == (h * 9) \div 16
        c1 == IF c0 > w THEN w ELSE c0
    IN  c1 - (c1 % 2)

CropH(h) == h - (h % 2)

crop_w == CropW(src_w, src_h)
crop_h == CropH(src_h)

----------------------------------------------------------------------------
(* Detections *)

\* the record detect_faces_in_frame appends; cx is the keypoint blend
MkFace(x, y, w, h, cx) ==
    [x |-> x, y |-> y, w |-> w, h |-> h, cx |-> cx,
     cy |-> y + (h \div 2), area |-> w * h]

FA == MkFace(130, 30, 40, 40, 150)
FB == MkFace(275, 50, 30, 30, 290)
FC == MkFace(133, 30, 40, 40, 153)
FD == MkFace(340, 60, 40, 40, 360)
FE == MkFace(20, 37, 40, 40, 40)
FG == MkFace(255, 40, 50, 50, 280)

VideoDims == {<<400, 181>>}

\* what the detector may return for a tracking sample
TrackFaceLists ==
    {<< >>, <<FA>>, <<FC>>, <<FD>>, <<FE>>, <<FA, FB>>, <<FB, FA>>, <<FA, FG>>}
\* ... in the segment specification
SegFaceLists == {<< >>, <<FA>>}
\* ... in the matching specification
MatchFaceLists ==
    {<< >>, <<FA>>, <<FD>>, <<FE, FA>>, <<FA, FB>>, <<FB, FA>>,
     <<FE, FA, FD>>, <<FD, FA, FE>>, <<FA, FG, FB>>}
\* ... for a classification sample
ClsFaceLists == {<< >>, <<FE>>, <<FA>>, <<FA, FC>>, <<FB, FD>>, <<FA, FB>>}

\* what the diarizer may return
DiarChoices ==
    { << >>,
      << [start |-> 0, end |-> 50000, speaker |-> "A"] >>,
      << [start |-> 1500, end |-> 2500, speaker |-> "A"],
         [start |-> 2500, end |-> 50000, speaker |-> "B"] >> }

----------------------------------------------------------------------------
(* Sequence helpers *)

RECURSIVE SelectIdx(_, _, _)
\* the indices i >= from of s, in order, for which Keep[i] holds
SelectIdx(n, Keep, from) ==
    IF from > n THEN << >>
    ELSE IF Keep[from] THEN <<from>> \o SelectIdx(n, Keep, from + 1)
    ELSE SelectIdx(n, Keep, from + 1)

RECURSIVE FirstMinIdx(_, _, _)
\* Python's min(..., key=): the first index of idxs (a sequence) whose key is least
FirstMinIdx(idxs, Key, best) ==
    IF idxs = << >> THEN best
    ELSE IF Key[Head(idxs)] < Key[best]
         THEN FirstMinIdx(Tail(idxs), Key, Head(idxs))
         ELSE FirstMinIdx(Tail(idxs), Key, best)

RECURSIVE InsertByCx(_, _)
\* stable insertion of f into a list sorted by cx
InsertByCx(sorted, f) ==
    IF sorted = << >> THEN <<f>>
    ELSE IF f.cx < Head(sorted).cx THEN <<f>> \o sorted
    ELSE <<Head(sorted)>> \o InsertByCx(Tail(sorted), f)

RECURSIVE SortedByCx(_)
\* sorted(faces, key=lambda f: f["cx"])
SortedByCx(faces) ==
    IF faces = << >> THEN << >>
    ELSE InsertByCx(SortedByCx(SubSeq(faces, 1, Len(faces) - 1)), faces[Len(faces)])

----------------------------------------------------------------------------
(* Face identity matching across frames *)

RECURSIVE MatchLoop(_, _, _, _, _)
\* the loop over prev_faces: p is the index of pf, used the claimed indices
MatchLoop(prevf, currf, p, used, matched) ==
    IF p > Len(prevf) THEN <<used, matched>>
    ELSE
      LET pf == prevf[p]
          candidates == SelectIdx(Len(currf), [i \in 1..Len(currf) |-> i \notin used], 1)
      IN  IF candidates = << >> THEN <<used, matched>>
          ELSE
            LET Key == [i \in 1..Len(currf) |->
                          Abs(currf[i].cx - pf.cx) + Abs(currf[i].cy - pf.cy)]
                best_i == FirstMinIdx(Tail(candidates), Key, Head(candidates))
            IN  MatchLoop(prevf, currf, p + 1, used \cup {best_i},
                          Append(matched, currf[best_i]))

\* match_faces_across_frames without the final loop over the unclaimed detections
match_faces_claimed_only(prevf, currf) ==
    IF prevf = << >> \/ currf = << >> THEN currf
    ELSE MatchLoop(prevf, currf, 1, {}, << >>)[2]

match_faces_across_frames(prevf, currf) ==
    IF prevf = << >> \/ currf = << >> THEN currf
    ELSE
      LET r == MatchLoop(prevf, currf, 1, {}, << >>)
          rest == SelectIdx(Len(currf), [i \in 1..Len(currf) |-> i \notin r[1]], 1)
      IN  r[2] \o [j \in 1..Len(rest) |-> currf[rest[j]]]

----------------------------------------------------------------------------
(* Head room: vertical crop positioning *)

RECURSIVE MinY(_)
MinY(faces) ==
    IF Len(faces) = 1 THEN faces[1].y
    ELSE Min2(faces[1].y, MinY(Tail(faces)))

get_crop_y(faces, sh, ch) ==
    IF faces = << >> THEN 0
    ELSE
      LET top_face_y == MinY(faces)
          target_y == top_face_y - ((ch * 20) \div 100)
      IN  Max2(0, Min2(target_y, sh - ch))

----------------------------------------------------------------------------
(* Speaker turns *)

NoSpeaker == ""

RECURSIVE SpeakerIn(_, _)
SpeakerIn(segs, t) ==
    IF segs = << >> THEN NoSpeaker
    ELSE IF Head(segs).start <= t /\ t <= Head(segs).end THEN Head(segs).speaker
    ELSE SpeakerIn(Tail(segs), t)

get_speaker_at(t) == SpeakerIn(diarization_segments, t)

----------------------------------------------------------------------------
(* Subject selector *)

\* [f for f in faces if edge_margin < f["cx"] < src_w - edge_margin]
Interior(faces) ==
    LET edge_margin == crop_w
        idx == SelectIdx(Len(faces),
                 [i \in 1..Len(faces) |->
                    edge_margin < faces[i].cx /\ faces[i].cx < src_w - edge_margin], 1)
    IN  [j \in 1..Len(idx) |-> faces[idx[j]]]

\* min(candidates, key=lambda f: abs(f["cx"] - last_crop_cx))
ClosestTo(cands, c) ==
    cands[FirstMinIdx([j \in 1..(Len(cands) - 1) |-> j + 1],
                      [j \in 1..Len(cands) |-> Abs(cands[j].cx - c)], 1)]

\* max(candidates, key=lambda f: f["area"])
LargestArea(cands) ==
    cands[FirstMinIdx([j \in 1..(Len(cands) - 1) |-> j + 1],
                      [j \in 1..Len(cands) |-> 0 - cands[j].area], 1)]

\* TargetCxMany with the two sides exchanged
TargetCxManySwapped(faces, t, last_crop_cx) ==
    LET spk == get_speaker_at(t)
    IN  IF spk # NoSpeaker /\ spk \in DOMAIN speaker_side
        THEN LET side == speaker_side[spk]
                 sorted_faces == SortedByCx(faces)
             IN  IF side = "left" THEN sorted_faces[Len(sorted_faces)].cx
                 ELSE sorted_faces[1].cx
        ELSE LET interior == Interior(faces)
                 candidates == IF interior # << >> THEN interior ELSE faces
             IN  IF last_crop_cx # None
                 THEN ClosestTo(candidates, last_crop_cx).cx
                 ELSE LargestArea(candidates).cx

\* the target center of a sample with two or more detections
TargetCxMany(faces, t, last_crop_cx) ==
    LET spk == get_speaker_at(t)
    IN  IF spk # NoSpeaker /\ spk \in DOMAIN speaker_side
        THEN LET side == speaker_side[spk]
                 sorted_faces == SortedByCx(faces)
             IN  IF side = "left" THEN sorted_faces[1].cx
                 ELSE sorted_faces[Len(sorted_faces)].cx
        ELSE IF last_crop_cx # None
        THEN LET interior == Interior(faces)
                 candidates == IF interior # << >> THEN interior ELSE faces
             IN  ClosestTo(candidates, last_crop_cx).cx
        ELSE LET interior == Interior(faces)
                 candidates == IF interior # << >> THEN interior ELSE faces
             IN  LargestArea(candidates).cx

\* ClampX without the upper limit
ClampXNoUpper(crop_x) == Max2(0, crop_x)

\* max(0, min(crop_x, src_w - crop_w))
ClampX(crop_x) == Max2(0, Min2(crop_x, src_w - crop_w))

get_crop_x(faces, t, last_crop_cx) ==
    IF faces = << >> THEN None
    ELSE
      LET target_cx == IF Len(faces) = 1 THEN faces[1].cx
                       ELSE TargetCxMany(faces, t, last_crop_cx)
          crop_x == target_cx - (crop_w \div 2)
      IN  ClampX(crop_x)

----------------------------------------------------------------------------
(* Video type detection *)

\* face["cx"] < src_w * 0.30 or face["cx"] > src_w * 0.65
on_side(face) == face.cx * 100 < src_w * 30 \/ face.cx * 100 > src_w * 65

\* src_w * 0.25 < cx < src_w * 0.75 and src_h * 0.15 < cy < src_h * 0.85
is_centered(face) ==
    /\ src_w * 25 < face.cx * 100 /\ face.cx * 100 < src_w * 75
    /\ src_h * 15 < face.cy * 100 /\ face.cy * 100 < src_h * 85

\* the members of centered_faces
InCenterBand(face) == src_w * 25 < face.cx * 100 /\ face.cx * 100 < src_w * 75

\* what one sample adds to pip_detections
PipOfSample(faces) == Cardinality({i \in 1..Len(faces) : on_side(faces[i])})

CenteredNotSide(face) == ~on_side(face) /\ is_centered(face)

\* CenterBonus that counts only the detections added to full_detections
CenterBonusCountedOnly(faces) ==
    IF Cardinality({i \in 1..Len(faces) : CenteredNotSide(faces[i])}) >= 2 THEN 2 ELSE 0

\* the +2 of a sample with two or more centered_faces
CenterBonus(faces) ==
    IF Cardinality({i \in 1..Len(faces) : InCenterBand(faces[i])}) >= 2 THEN 2 ELSE 0

\* what one sample adds to full_detections
FullOfSample(faces) ==
    Cardinality({i \in 1..Len(faces) : CenteredNotSide(faces[i])}) + CenterBonus(faces)

\* number of positions where consecutive entries of a sequence differ
Changes(seq) == Cardinality({i \in 1..(Len(seq) - 1) : seq[i] # seq[i + 1]})

\* the detector's answers for the next classification sample
ClsNext ==
    IF sample_faces = << >> \/ Changes(sample_faces) < MaxClsChanges
    THEN ClsFaceLists
    ELSE {sample_faces[Len(sample_faces)]}

\* one iteration of "for t in sample_times"
ClassifySample ==
    /\ pc = "classify"
    /\ cls_i <= NumClsSamples
    /\ cls_i' = cls_i + 1
    /\ \/ \* cap.read() fails: continue
          UNCHANGED <<sample_faces, pip_detections, full_detections>>
       \/ \E faces \in ClsNext :
            /\ sample_faces' = Append(sample_faces, faces)
            /\ pip_detections' = pip_detections + PipOfSample(faces)
            /\ full_detections' = full_detections + FullOfSample(faces)
    /\ UNCHANGED <<pc, src_w, src_h, fps, total_f, video_type,
                   diarization_segments, sample_k, prev_faces, detected,
                   frame_data,
                   speaker_side, last_x, last_cx, last_velocity, raw_coords,
                   smoothed_x, prev_had_face, coords, frame_coords, interp_i,
                   segments, output>>

\* VideoTypeOf with >= for > in the comparison of the two counts
VideoTypeOfTie(samples, pip, full) ==
    LET total_face_frames == Cardinality({i \in 1..Len(samples) : samples[i] # << >>})
    IN  IF total_face_frames = 0 THEN "no_face"
        ELSE IF pip >= full /\ pip >= 3 THEN "screen_pip"
        ELSE "podcast"

\* the if / elif / else that sets video_type
VideoTypeOf(samples, pip, full) ==
    LET total_face_frames == Cardinality({i \in 1..Len(samples) : samples[i] # << >>})
    IN  IF total_face_frames = 0 THEN "no_face"
        ELSE IF pip > full /\ pip >= 3 THEN "screen_pip"
        ELSE "podcast"

DetectVideoType ==
    /\ pc = "classify"
    /\ cls_i > NumClsSamples
    /\ video_type' = VideoTypeOf(sample_faces, pip_detections, full_detections)
    /\ pc' = "handle"
    /\ UNCHANGED <<src_w, src_h, fps, total_f, cls_i, sample_faces,
                   pip_detections, full_detections, diarization_segments,
                   sample_k, prev_faces, detected, frame_data, speaker_side,
                   last_x,
                   last_cx, last_velocity, raw_coords, smoothed_x,
                   prev_had_face, coords, frame_coords, interp_i, segments,
                   output>>

HandleNoFace ==
    /\ pc = "handle"
    /\ video_type = "no_face"
    /\ output' = [mode |-> "skip"]
    /\ pc' = "done"
    /\ UNCHANGED <<src_w, src_h, fps, total_f, cls_i, sample_faces,
                   pip_detections, full_detections, video_type,
                   diarization_segments, sample_k, prev_faces, detected,
                   frame_data,
                   speaker_side, last_x, last_cx, last_velocity, raw_coords,
                   smoothed_x, prev_had_face, coords, frame_coords, interp_i,
                   segments>>

----------------------------------------------------------------------------
(* Screen recording with PiP face cam *)

RECURSIVE Flatten(_)
Flatten(lists) ==
    IF lists = << >> THEN << >> ELSE Head(lists) \o Flatten(Tail(lists))

IsPipFace(face) ==
    LET in_corner ==
          /\ (face.cx * 100 < src_w * 35 \/ face.cx * 100 > src_w * 65)
          /\ (face.cy * 100 < src_h * 35 \/ face.cy * 100 > src_h * 65)
        is_small == face.w * 100 < src_w * 25
    IN  in_corner \/ is_small

PipRegion(samples) ==
    LET all == Flatten(samples)
        idx == SelectIdx(Len(all), [i \in 1..Len(all) |-> IsPipFace(all[i])], 1)
    IN  IF idx = << >>
        THEN [x |-> src_w - (src_w \div 4), y |-> src_h - (src_h \div 4),
              w |-> src_w \div 4, h |-> src_h \div 4]
        ELSE LET face == all[idx[1]]
                 pad == (face.w * 8) \div 10
             IN  [x |-> Max2(0, face.x - pad),
                  y |-> Max2(0, face.y - pad),
                  w |-> Min2(src_w - Max2(0, face.x - pad), face.w + pad * 2),
                  h |-> Min2(src_h - Max2(0, face.y - pad), face.h + pad * 2)]

SplitResult(samples) ==
    LET pip_region == PipRegion(samples)
        pip_cx == pip_region.x + (pip_region.w \div 2)
        right == pip_cx * 2 > src_w
        screen_x0 == IF right THEN 0 ELSE pip_region.x + pip_region.w
        screen_w0 == IF right THEN pip_region.x ELSE src_w - screen_x0
        screen_w == IF screen_w0 < 100 THEN crop_w ELSE screen_w0
        screen_x == IF screen_w0 < 100
                    THEN (IF right THEN 0 ELSE src_w - crop_w)
                    ELSE screen_x0
    IN  [mode |-> "split",
         screen |-> [x |-> screen_x, y |-> 0, w |-> screen_w, h |-> src_h],
         pip |-> pip_region,
         split_ratio |-> 50]

HandleScreenPip ==
    /\ pc = "handle"
    /\ video_type = "screen_pip"
    /\ output' = SplitResult(sample_faces)
    /\ pc' = "done"
    /\ UNCHANGED <<src_w, src_h, fps, total_f, cls_i, sample_faces,
                   pip_detections, full_detections, video_type,
                   diarization_segments, sample_k, prev_faces, detected,
                   frame_data,
                   speaker_side, last_x, last_cx, last_velocity, raw_coords,
                   smoothed_x, prev_had_face, coords, frame_coords, interp_i,
                   segments>>

----------------------------------------------------------------------------
(* Podcast / talking head: diarization and the face detection loop *)

\* audio extraction and speaker diarization: the turns are an input
StartTracking(turnChoices) ==
    /\ pc = "handle"
    /\ video_type = "podcast"
    /\ \E turns \in turnChoices : diarization_segments' = turns
    /\ pc' = "detect"
    /\ UNCHANGED <<src_w, src_h, fps, total_f, cls_i, sample_faces,
                   pip_detections, full_detections, video_type, sample_k,
                   prev_faces, detected, frame_data, speaker_side, last_x,
                   last_cx, last_velocity, raw_coords, smoothed_x,
                   prev_had_face, coords, frame_coords, interp_i, segments,
                   output>>

\* while t < duration, with t = sample_k * sample_interval and duration = total_f / fps
InClip(k) == k * sample_interval * fps < total_f * TicksPerSec

\* one iteration of the detection loop whose frame is read
DetectSample(faceChoices) ==
    /\ pc = "detect"
    /\ InClip(sample_k)
    /\ \E faces0 \in faceChoices :
         LET faces == match_faces_across_frames(prev_faces, faces0)
         IN  /\ frame_data' = Append(frame_data,
                                [t |-> sample_k * sample_interval, faces |-> faces])
             /\ prev_faces' = faces
             /\ detected' = faces0
    /\ sample_k' = sample_k + 1
    /\ UNCHANGED <<pc, src_w, src_h, fps, total_f, cls_i, sample_faces,
                   pip_detections, full_detections, video_type,
                   diarization_segments, speaker_side, last_x, last_cx,
                   last_velocity, raw_coords, smoothed_x, prev_had_face,
                   coords, frame_coords, interp_i, segments, output>>

\* BindLoop with the break inside the inner if: scans on until a speaker resolves
RECURSIVE BindLoopUntilBound(_, _)
BindLoopUntilBound(fds, side) ==
    IF fds = << >> THEN side
    ELSE IF Len(Head(fds).faces) >= 2
            /\ get_speaker_at(Head(fds).t) # NoSpeaker /\ DOMAIN side = {}
         THEN (get_speaker_at(Head(fds).t) :> "left")
         ELSE BindLoopUntilBound(Tail(fds), side)

\* for fd in frame_data: the first sample with two or more faces decides
RECURSIVE BindLoop(_, _)
BindLoop(fds, side) ==
    IF fds = << >> THEN side
    ELSE IF Len(Head(fds).faces) >= 2
         THEN LET spk == get_speaker_at(Head(fds).t)
              IN  IF spk # NoSpeaker /\ DOMAIN side = {}
                  THEN (spk :> "left")
                  ELSE side
         ELSE BindLoop(Tail(fds), side)

\* the detection loop ends (t >= duration, or cap.read() fails: break);
\* then speaker_side is built
EndDetect ==
    /\ pc = "detect"
    /\ speaker_side' = BindLoop(frame_data, << >>)
    /\ pc' = "track"
    /\ UNCHANGED <<src_w, src_h, fps, total_f, cls_i, sample_faces,
                   pip_detections, full_detections, video_type,
                   diarization_segments, sample_k, prev_faces, detected,
                   frame_data,
                   last_x, last_cx, last_velocity, raw_coords, smoothed_x,
                   prev_had_face, coords, frame_coords, interp_i, segments,
                   output>>

----------------------------------------------------------------------------
(* Velocity-based prediction when the face is missing *)

\* last_velocity *= 0.5 on the exact pair <<numerator, denominator>>
HalveVelocity(v) ==
    IF v[1] = 0 THEN <<0, 1>>
    ELSE IF v[1] % 2 = 0 THEN <<v[1] \div 2, v[2]>>
    ELSE <<v[1], v[2] * 2>>

\* int(max(0, min(last_x + last_velocity * 0.5, src_w - crop_w)))
PredictX(lx, v) ==
    LET num == lx * 2 * v[2] + v[1]
        den == 2 * v[2]
    IN  IF num <= 0 THEN 0
        ELSE IF num >= (src_w - crop_w) * den THEN src_w - crop_w
        ELSE num \div den

\* the velocity a detected sample leaves: x - last_x
VelocityAfter(x, lx) == <<x - lx, 1>>

\* one iteration of "for fd in frame_data"
TrackSample ==
    /\ pc = "track"
    /\ Len(raw_coords) < Len(frame_data)
    /\ LET fd == frame_data[Len(raw_coords) + 1]
           x0 == get_crop_x(fd.faces, fd.t, last_cx)
           has_face == fd.faces # << >>
           x == IF x0 = None THEN PredictX(last_x, last_velocity) ELSE x0
       IN  /\ last_velocity' = IF x0 = None THEN HalveVelocity(last_velocity)
                               ELSE VelocityAfter(x, last_x)
           /\ last_cx' = IF x0 = None THEN last_cx ELSE x + (crop_w \div 2)
           /\ raw_coords' = Append(raw_coords, [t |-> fd.t, x |-> x, face |-> has_face])
           /\ last_x' = x
    /\ UNCHANGED <<pc, src_w, src_h, fps, total_f, cls_i, sample_faces,
                   pip_detections, full_detections, video_type,
                   diarization_segments, sample_k, prev_faces, detected,
                   frame_data,
                   speaker_side, smoothed_x, prev_had_face, coords,
                   frame_coords, interp_i, segments, output>>

\* smoothed_x = float(raw_coords[0]["x"]) raises IndexError when no sample was read
StartSmoothing ==
    /\ pc = "track"
    /\ Len(raw_coords) = Len(frame_data)
    /\ IF raw_coords = << >>
       THEN /\ pc' = "crashed"
            /\ UNCHANGED <<smoothed_x, prev_had_face>>
       ELSE /\ pc' = "smooth"
            /\ smoothed_x' = raw_coords[1].x * FxScale
            /\ prev_had_face' = raw_coords[1].face
    /\ UNCHANGED <<src_w, src_h, fps, total_f, cls_i, sample_faces,
                   pip_detections, full_detections, video_type,
                   diarization_segments, sample_k, prev_faces, detected,
                   frame_data,
                   speaker_side, last_x, last_cx, last_velocity, raw_coords,
                   coords, frame_coords, interp_i, segments, output>>

----------------------------------------------------------------------------
(* Adaptive alpha (velocity-aware EMA smoothing) *)

\* fd_map.get(rc["t"], {}).get("faces", []): the last sample with that t
RECURSIVE FdMapFaces(_, _)
FdMapFaces(fds, t) ==
    IF fds = << >> THEN << >>
    ELSE IF fds[Len(fds)].t = t THEN fds[Len(fds)].faces
    ELSE FdMapFaces(SubSeq(fds, 1, Len(fds) - 1), t)

\* SmoothStep that tries the dead-zone blend before the re-acquisition snap
SmoothStepBlendFirst(sx, rx, face, prev_face) ==
    LET raw_x == rx * FxScale
        delta == Abs(raw_x - sx)
        D == 200 * FxScale
        A == Min2(180 * FxScale, 20 * FxScale + delta)
    IN  IF delta > SNAP_ZONE * FxScale THEN raw_x
        ELSE IF delta > DEAD_ZONE * FxScale
             THEN (A * raw_x + (D - A) * sx) \div D
        ELSE IF face /\ ~prev_face THEN raw_x
        ELSE sx

\* the new smoothed_x (in 1/FxScale pixel) for a raw x (in pixels)
SmoothStep(sx, rx, face, prev_face) ==
    LET raw_x == rx * FxScale
        delta == Abs(raw_x - sx)
        D == 200 * FxScale
        \* ALPHA = min(0.9, 0.1 + velocity / 200.0), as the fraction A / D
        A == Min2(180 * FxScale, 20 * FxScale + delta)
    IN  IF face /\ ~prev_face THEN raw_x
        ELSE IF delta > SNAP_ZONE * FxScale THEN raw_x
        ELSE IF delta > DEAD_ZONE * FxScale
             THEN (A * raw_x + (D - A) * sx) \div D
        ELSE sx

\* one iteration of "for rc in raw_coords"
SmoothSample ==
    /\ pc = "smooth"
    /\ Len(coords) < Len(raw_coords)
    /\ LET rc == raw_coords[Len(coords) + 1]
           sx == SmoothStep(smoothed_x, rc.x, rc.face, prev_had_face)
           frame_faces == FdMapFaces(frame_data, rc.t)
           crop_y == get_crop_y(frame_faces, src_h, crop_h)
       IN  /\ smoothed_x' = sx
           /\ coords' = Append(coords,
                          [t |-> rc.t, x |-> sx \div FxScale, y |-> crop_y,
                           w |-> crop_w, h |-> crop_h, face |-> rc.face])
           /\ prev_had_face' = rc.face
    /\ UNCHANGED <<pc, src_w, src_h, fps, total_f, cls_i, sample_faces,
                   pip_detections, full_detections, video_type,
                   diarization_segments, sample_k, prev_faces, detected,
                   frame_data,
                   speaker_side, last_x, last_cx, last_velocity, raw_coords,
                   frame_coords, interp_i, segments, output>>

EndSmoothing ==
    /\ pc = "smooth"
    /\ Len(coords) = Len(raw_coords)
    /\ pc' = "interp"
    /\ UNCHANGED <<src_w, src_h, fps, total_f, cls_i, sample_faces,
                   pip_detections, full_detections, video_type,
                   diarization_segments, sample_k, prev_faces, detected,
                   frame_data,
                   speaker_side, last_x, last_cx, last_velocity, raw_coords,
                   smoothed_x, prev_had_face, coords, frame_coords, interp_i,
                   segments, output>>

----------------------------------------------------------------------------
(* Interpolate to per-frame *)

\* max(1, round((b["t"] - a["t"]) / frame_interval)), frame_interval = 1.0 / fps
StepsBetween(a, b) == Max2(1, PyRound((b.t - a.t) * fps, TicksPerSec))

\* round(a["t"] + step * frame_interval, 4)
FrameTime(a, step) == a.t + PyRound(step * TicksPerSec, fps)

\* int(a + alpha * (b - a)) with alpha = step / steps; the value is never negative
Lerp(av, bv, step, steps) == (av * steps + step * (bv - av)) \div steps

\* InterpEntry that blends across a scene cut too
InterpEntryBlend(a, b, step, steps) ==
    [t |-> FrameTime(a, step), x |-> Lerp(a.x, b.x, step, steps),
     y |-> Lerp(a.y, b.y, step, steps), w |-> crop_w, h |-> crop_h,
     face |-> a.face]

\* the entry the inner loop appends for one step
InterpEntry(a, b, step, steps) ==
    LET is_scene_cut == Abs(b.x - a.x) > INTERP_SNAP
        interp_x == IF is_scene_cut
                    THEN (IF step > 0 THEN b.x ELSE a.x)
                    ELSE Lerp(a.x, b.x, step, steps)
        interp_y == IF is_scene_cut
                    THEN (IF step > 0 THEN b.y ELSE a.y)
                    ELSE Lerp(a.y, b.y, step, steps)
    IN  [t |-> FrameTime(a, step), x |-> interp_x, y |-> interp_y,
         w |-> crop_w, h |-> crop_h, face |-> a.face]

\* the entries of one keyframe pair, steps 0 .. steps-1
InterpPairEntries(a, b) ==
    LET steps == StepsBetween(a, b)
    IN  [s \in 1..steps |-> InterpEntry(a, b, s - 1, steps)]

\* one iteration of "for i in range(len(coords) - 1)"
InterpPair ==
    /\ pc = "interp"
    /\ interp_i < Len(coords)
    /\ frame_coords' = frame_coords \o InterpPairEntries(coords[interp_i], coords[interp_i + 1])
    /\ interp_i' = interp_i + 1
    /\ UNCHANGED <<pc, src_w, src_h, fps, total_f, cls_i, sample_faces,
                   pip_detections, full_detections, video_type,
                   diarization_segments, sample_k, prev_faces, detected,
                   frame_data,
                   speaker_side, last_x, last_cx, last_velocity, raw_coords,
                   smoothed_x, prev_had_face, coords, segments, output>>

\* frame_coords.append(coords[-1])
EndInterp ==
    /\ pc = "interp"
    /\ interp_i >= Len(coords)
    /\ frame_coords' = Append(frame_coords, coords[Len(coords)])
    /\ pc' = "build"
    /\ UNCHANGED <<src_w, src_h, fps, total_f, cls_i, sample_faces,
                   pip_detections, full_detections, video_type,
                   diarization_segments, sample_k, prev_faces, detected,
                   frame_data,
                   speaker_side, last_x, last_cx, last_velocity, raw_coords,
                   smoothed_x, prev_had_face, coords, interp_i, segments,
                   output>>

----------------------------------------------------------------------------
(* Build segments *)

SegTypeOf(fc) == IF fc.face THEN "face" ELSE "letterbox"

\* the loop over frame_coords[1:], carrying the open segment
RECURSIVE SegLoop(_, _, _, _, _, _)
SegLoop(fcs, segs, seg_type, seg_start, seg_coords, dur) ==
    IF fcs = << >>
    THEN Append(segs, [type |-> seg_type, start |-> seg_start, end |-> dur,
                       coords |-> seg_coords])
    ELSE LET fc == Head(fcs)
             t == SegTypeOf(fc)
         IN  IF t # seg_type
             THEN SegLoop(Tail(fcs),
                          Append(segs, [type |-> seg_type, start |-> seg_start,
                                        end |-> fc.t, coords |-> seg_coords]),
                          t, fc.t, <<fc>>, dur)
             ELSE SegLoop(Tail(fcs), segs, seg_type, seg_start,
                          Append(seg_coords, fc), dur)

BuildSegs(fcs, dur) ==
    IF fcs = << >> THEN << >>
    ELSE SegLoop(Tail(fcs), << >>, SegTypeOf(fcs[1]), fcs[1].t, <<fcs[1]>>, dur)

BuildSegments ==
    /\ pc = "build"
    /\ segments' = BuildSegs(frame_coords, DurationTicks(total_f, fps))
    /\ pc' = "merge"
    /\ UNCHANGED <<src_w, src_h, fps, total_f, cls_i, sample_faces,
                   pip_detections, full_detections, video_type,
                   diarization_segments, sample_k, prev_faces, detected,
                   frame_data,
                   speaker_side, last_x, last_cx, last_velocity, raw_coords,
                   smoothed_x, prev_had_face, coords, frame_coords, interp_i,
                   output>>

----------------------------------------------------------------------------
(* Merge short segments *)

\* Absorbed with the comparison turned round
AbsorbedLong(merged, seg) == merged # << >> /\ seg.end - seg.start > MIN_SEG_DURATION

\* if merged and seg_dur < MIN_SEG_DURATION
Absorbed(merged, seg) == merged # << >> /\ seg.end - seg.start < MIN_SEG_DURATION

\* ExtendLast that forgets to move the end
ExtendLastKeepsEnd(merged, seg) ==
    LET n == Len(merged)
    IN  [merged EXCEPT ![n].coords = merged[n].coords \o seg.coords]

\* merged[-1]["end"] = seg["end"]; merged[-1]["coords"].extend(seg["coords"])
ExtendLast(merged, seg) ==
    LET n == Len(merged)
    IN  [merged EXCEPT ![n].end = seg.end,
                       ![n].coords = merged[n].coords \o seg.coords]

RECURSIVE MergeLoop(_, _)
MergeLoop(segs, merged) ==
    IF segs = << >> THEN merged
    ELSE LET seg == Head(segs)
         IN  IF Absorbed(merged, seg)
             THEN MergeLoop(Tail(segs), ExtendLast(merged, seg))
             ELSE MergeLoop(Tail(segs), Append(merged, seg))

MergeSegments ==
    /\ pc = "merge"
    /\ segments' = MergeLoop(segments, << >>)
    /\ pc' = "encode"
    /\ UNCHANGED <<src_w, src_h, fps, total_f, cls_i, sample_faces,
                   pip_detections, full_detections, video_type,
                   diarization_segments, sample_k, prev_faces, detected,
                   frame_data,
                   speaker_side, last_x, last_cx, last_velocity, raw_coords,
                   smoothed_x, prev_had_face, coords, frame_coords, interp_i,
                   output>>

----------------------------------------------------------------------------
(* Output encoder *)

\* {k: v for k, v in c.items() if k != "face"}
Clean(c) == [t |-> c.t, x |-> c.x, y |-> c.y, w |-> c.w, h |-> c.h]

\* OutputOf that tests has_face before the mixed case
OutputOfFaceFirst(segs, fcs) ==
    LET has_face == \E i \in 1..Len(segs) : segs[i].type = "face"
    IN  IF has_face
        THEN [mode |-> "crop", coords |-> [i \in 1..Len(fcs) |-> Clean(fcs[i])]]
        ELSE [mode |-> "skip"]

OutputOf(segs, fcs) ==
    LET has_face == \E i \in 1..Len(segs) : segs[i].type = "face"
        has_letterbox == \E i \in 1..Len(segs) : segs[i].type = "letterbox"
    IN  IF has_face /\ has_letterbox
        THEN [mode |-> "mixed", segments |-> segs, crop_w |-> crop_w, crop_h |-> crop_h]
        ELSE IF has_face
        THEN [mode |-> "crop", coords |-> [i \in 1..Len(fcs) |-> Clean(fcs[i])]]
        ELSE [mode |-> "skip"]

EncodeOutput ==
    /\ pc = "encode"
    /\ output' = OutputOf(segments, frame_coords)
    /\ pc' = "done"
    /\ UNCHANGED <<src_w, src_h, fps, total_f, cls_i, sample_faces,
                   pip_detections, full_detections, video_type,
                   diarization_segments, sample_k, prev_faces, detected,
                   frame_data,
                   speaker_side, last_x, last_cx, last_velocity, raw_coords,
                   smoothed_x, prev_had_face, coords, frame_coords, interp_i,
                   segments>>

----------------------------------------------------------------------------
(* Initial states and specifications *)

\* the state once the video's dimensions are read (lines 82-96), before any sample
Start(dims, clip) ==
    /\ src_w = dims[1]
    /\ src_h = dims[2]
    /\ fps = clip[1]
    /\ total_f = clip[2]
    /\ diarization_segments = << >>
    /\ sample_k = 0
    /\ prev_faces = << >>
    /\ detected = << >>
    /\ frame_data = << >>
    /\ speaker_side = << >>
    /\ last_x = (dims[1] - CropW(dims[1], dims[2])) \div 2
    /\ last_cx = dims[1] \div 2
    /\ last_velocity = <<0, 1>>
    /\ raw_coords = << >>
    /\ smoothed_x = 0
    /\ prev_had_face = FALSE
    /\ coords = << >>
    /\ frame_coords = << >>
    /\ interp_i = 1
    /\ segments = << >>
    /\ output = [mode |-> "none"]

\* a clip classified as talking head: one centered face in each of the 9 samples
Classified ==
    /\ pc = "handle"
    /\ cls_i = NumClsSamples + 1
    /\ sample_faces = [i \in 1..NumClsSamples |-> <<FA>>]
    /\ pip_detections = 0
    /\ full_detections = NumClsSamples
    /\ video_type = "podcast"

\* <<fps, total_f>> of the clips
ClsClips == {<<10, 20>>}
TrackClips == {<<30, 3 * MaxSamples - 1>>}
SegClips == {<<10, MaxSegSamples>>, <<30, 3 * MaxSegSamples>>}
MatchClips == {<<30, 3 * MaxMatchSamples - 1>>}

\* the detector's answers in the segment specification: a subject that
\* appears or disappears at most MaxFlips times
SegNext ==
    IF frame_data = << >> \/ Changes([i \in 1..Len(frame_data) |-> frame_data[i].faces]) < MaxFlips
    THEN SegFaceLists
    ELSE {frame_data[Len(frame_data)].faces}

Pipeline ==
    \/ TrackSample
    \/ StartSmoothing
    \/ SmoothSample
    \/ EndSmoothing
    \/ InterpPair
    \/ EndInterp
    \/ BuildSegments
    \/ MergeSegments
    \/ EncodeOutput

\* the layout classifier
InitClassify ==
    /\ \E dims \in VideoDims, clip \in ClsClips : Start(dims, clip)
    /\ pc = "classify"
    /\ cls_i = 1
    /\ sample_faces = << >>
    /\ pip_detections = 0
    /\ full_detections = 0
    /\ video_type = "none"

NextClassify ==
    \/ ClassifySample
    \/ DetectVideoType
    \/ HandleNoFace
    \/ HandleScreenPip
    \/ StartTracking({<< >>})

SpecClassify == InitClassify /\ [][NextClassify]_vars

\* the tracking pass of a short talking-head clip
Init ==
    /\ \E dims \in VideoDims, clip \in TrackClips : Start(dims, clip)
    /\ Classified

Next ==
    \/ StartTracking(DiarChoices)
    \/ DetectSample(TrackFaceLists)
    \/ EndDetect
    \/ Pipeline

Spec == Init /\ [][Next]_vars

\* segments of a longer talking-head clip
InitSeg ==
    /\ \E dims \in VideoDims, clip \in SegClips : Start(dims, clip)
    /\ Classified

NextSeg ==
    \/ StartTracking({<< >>})
    \/ DetectSample(SegNext)
    \/ EndDetect
    \/ Pipeline

SpecSeg == InitSeg /\ [][NextSeg]_vars

\* the detection loop alone, with up to three detections per sample
InitMatch ==
    /\ \E dims \in VideoDims, clip \in MatchClips : Start(dims, clip)
    /\ Classified

NextMatch ==
    \/ StartTracking({<< >>})
    \/ DetectSample(MatchFaceLists)
    \/ EndDetect

SpecMatch == InitMatch /\ [][NextMatch]_vars

----------------------------------------------------------------------------
(* Properties *)

Duration == DurationTicks(total_f, fps)
MaxX == src_w - crop_w
MaxY == src_h - crop_h

InBounds(c) == 0 <= c.x /\ c.x <= MaxX /\ 0 <= c.y /\ c.y <= MaxY

\* C1: every keyframe produced by gap prediction and adaptive smoothing, and
\* every per-frame entry of the interpolator, has 0 <= x <= srcW - cropW and
\* 0 <= y <= srcH - cropH (the raw predicted x included).
C1_CoordsInBounds ==
    /\ \A i \in 1..Len(raw_coords) : 0 <= raw_coords[i].x /\ raw_coords[i].x <= MaxX
    /\ \A i \in 1..Len(coords) : InBounds(coords[i])
    /\ \A i \in 1..Len(frame_coords) : InBounds(frame_coords[i])

\* a finished clip with an undetected sample whose path touches both limits of
\* x and the upper limit of y
C1_Witness ==
    /\ pc = "done"
    /\ \E i \in 1..Len(coords) : ~coords[i].face
    /\ \E i \in 1..Len(frame_coords) : frame_coords[i].x = MaxX /\ frame_coords[i].y = MaxY
    /\ \E i \in 1..Len(frame_coords) : frame_coords[i].x = 0
    /\ MaxX > 0 /\ MaxY > 0

Contiguous(segs) ==
    /\ segs # << >>
    /\ segs[1].start = 0
    /\ \A i \in 1..(Len(segs) - 1) :
         /\ segs[i].end = segs[i + 1].start
         /\ segs[i].start < segs[i + 1].start
    /\ segs[Len(segs)].start <= segs[Len(segs)].end
    /\ segs[Len(segs)].end = Duration

\* C2: the segments, before and after the merge pass, partition [0, duration):
\* the first starts at 0, each ends where the next starts, the last ends at
\* duration, and they are in increasing time order.
C2_SegmentsPartition == pc \in {"merge", "encode", "done"} => Contiguous(segments)

\* a merged list of two segments that came from three
C2_Witness ==
    /\ pc = "done"
    /\ Len(segments) = 2
    /\ Len(BuildSegs(frame_coords, Duration)) = 3

SegDur(seg) == seg.end - seg.start

\* C3 as stated: after the merge pass no segment other than possibly the last
\* is shorter than the minimum segment duration.
C3_OnlyLastShort ==
    pc \in {"encode", "done"} =>
        \A i \in 1..(Len(segments) - 1) : SegDur(segments[i]) >= MIN_SEG_DURATION

\* C3, amended: after the merge pass no segment other than possibly the first
\* is shorter than the minimum segment duration.
C3_OnlyFirstShort ==
    pc \in {"encode", "done"} =>
        \A i \in 2..Len(segments) : SegDur(segments[i]) >= MIN_SEG_DURATION

\* a short first segment kept in front of a second one, after a merge
C3_Witness ==
    /\ pc = "done"
    /\ Len(segments) = 2
    /\ SegDur(segments[1]) < MIN_SEG_DURATION
    /\ Len(BuildSegs(frame_coords, Duration)) = 3

\* keyframes i, i+1 are a scene cut for the interpolator
SceneCut(i) == Abs(coords[i + 1].x - coords[i].x) > INTERP_SNAP

\* per-frame entry j was emitted for the interval between keyframes i and i+1
Between(j, i) ==
    coords[i].t <= frame_coords[j].t /\ frame_coords[j].t < coords[i + 1].t

\* C4: across a scene cut no per-frame entry of the interval has an x other
\* than a.x or b.x.
C4_NoBlendAcrossCut ==
    \A i \in 1..(Len(coords) - 1) : \A j \in 1..Len(frame_coords) :
        (SceneCut(i) /\ Between(j, i)) =>
            frame_coords[j].x \in {coords[i].x, coords[i + 1].x}

\* a finished clip with a scene cut whose interval has more than one entry
C4_Witness ==
    /\ pc = "done"
    /\ \E i \in 1..(Len(coords) - 1) :
         /\ SceneCut(i)
         /\ Cardinality({j \in 1..Len(frame_coords) : Between(j, i)}) >= 2

\* C5 as stated: across a scene cut every entry with a timestamp before b.t
\* reports a's coordinates.
C5_HoldThenJump ==
    \A i \in 1..(Len(coords) - 1) : \A j \in 1..Len(frame_coords) :
        (SceneCut(i) /\ Between(j, i)) =>
            /\ frame_coords[j].x = coords[i].x
            /\ frame_coords[j].y = coords[i].y

\* the classification samples hold no detection at all
NoDetections == \A i \in 1..Len(sample_faces) : sample_faces[i] = << >>

\* Scenario A: one centered detection in each of the 9 samples
AllCentered ==
    /\ Len(sample_faces) = NumClsSamples
    /\ \A i \in 1..Len(sample_faces) :
         Len(sample_faces[i]) = 1 /\ CenteredNotSide(sample_faces[i][1])

\* Scenario B: a detection at cx = 10% of the width in 4 of 9 samples, none elsewhere
FourAtLeftMargin ==
    /\ Len(sample_faces) = NumClsSamples
    /\ Cardinality({i \in 1..Len(sample_faces) : sample_faces[i] # << >>}) = 4
    /\ \A i \in 1..Len(sample_faces) :
         sample_faces[i] # << >> =>
            Len(sample_faces[i]) = 1 /\ sample_faces[i][1].cx * 10 = src_w

Bound == pc \notin {"classify", "handle", "detect"}

\* sample i has two or more detections
Dual(i) == Len(frame_data[i].faces) >= 2

\* sample i is the first, in time order, with two or more detections and a
\* timestamp that resolves to a speaker turn
FirstDualWithSpeaker(i) ==
    /\ Dual(i) /\ get_speaker_at(frame_data[i].t) # NoSpeaker
    /\ \A j \in 1..(i - 1) : ~(Dual(j) /\ get_speaker_at(frame_data[j].t) # NoSpeaker)

\* sample i is the first with two or more detections
FirstDual(i) == Dual(i) /\ \A j \in 1..(i - 1) : ~Dual(j)

\* C7 as stated: the binding is made at the first sample that both has two or
\* more detections and resolves to a speaker, so it exists whenever there is
\* such a sample.
C7_BoundAtFirstResolving ==
    Bound =>
        \A i \in 1..Len(frame_data) :
            FirstDualWithSpeaker(i) =>
                speaker_side = (get_speaker_at(frame_data[i].t) :> "left")

\* C7, amended: the binding is decided once, at the first sample with two or
\* more detections: if its timestamp resolves to a speaker, that speaker is
\* bound to "left"; if not, or if no sample has two detections, no speaker is
\* bound for the clip; the binding is never changed or extended afterwards.
C7_BoundAtFirstDual ==
    Bound =>
        /\ \A i \in 1..Len(frame_data) :
             FirstDual(i) =>
                speaker_side =
                    IF get_speaker_at(frame_data[i].t) # NoSpeaker
                    THEN (get_speaker_at(frame_data[i].t) :> "left")
                    ELSE << >>
        /\ (\A i \in 1..Len(frame_data) : ~Dual(i)) => speaker_side = << >>

\* a finished clip whose first dual sample resolved to no speaker and left the
\* clip unbound, though a later dual sample resolves to one
C7_Witness ==
    /\ pc = "done"
    /\ speaker_side = << >>
    /\ \E i \in 1..Len(frame_data) : FirstDual(i) /\ ~FirstDualWithSpeaker(i)
    /\ \E i \in 1..Len(frame_data) : FirstDualWithSpeaker(i)

\* the least cx among the detections of a sample
LeftmostCx(faces) ==
    CHOOSE c \in {faces[i].cx : i \in 1..Len(faces)} :
        \A i \in 1..Len(faces) : c <= faces[i].cx

\* sample i has two or more detections and resolves to a speaker bound to "left"
LeftSpeakerSample(i) ==
    /\ Dual(i)
    /\ get_speaker_at(frame_data[i].t) # NoSpeaker
    /\ get_speaker_at(frame_data[i].t) \in DOMAIN speaker_side
    /\ speaker_side[get_speaker_at(frame_data[i].t)] = "left"

\* C8: in a sample with two or more detections that resolves to the speaker
\* bound to "left", the target is the detection with the least cx, whatever
\* the list order and the prior tracked center, and the crop origin is
\* clamp(cx - cropW/2, 0, srcW - cropW).
C8_LeftSpeakerPicksLeftmost ==
    Bound =>
        \A i \in 1..Len(raw_coords) :
            LeftSpeakerSample(i) =>
                raw_coords[i].x =
                    Max2(0, Min2(LeftmostCx(frame_data[i].faces) - (crop_w \div 2), MaxX))

\* a later sample of the bound speaker whose leftmost detection is listed
\* second and is not the one closest to the prior tracked center
C8_Witness ==
    /\ pc = "done"
    /\ \E i \in 2..Len(raw_coords) :
         /\ LeftSpeakerSample(i)
         /\ \E j \in 1..(i - 1) : LeftSpeakerSample(j)
         /\ frame_data[i].faces[1].cx > frame_data[i].faces[2].cx
         /\ Abs(frame_data[i].faces[1].cx - (raw_coords[i - 1].x + (crop_w \div 2)))
              < Abs(frame_data[i].faces[2].cx - (raw_coords[i - 1].x + (crop_w \div 2)))

\* samples i .. i+3 are Scenario E: a detection giving x = 100, two samples
\* without detections, a detection giving x = 100
ScenarioE(i) ==
    /\ i + 3 <= Len(raw_coords)
    /\ frame_data[i].faces # << >> /\ raw_coords[i].x = 100
    /\ frame_data[i + 1].faces = << >>
    /\ frame_data[i + 2].faces = << >>
    /\ frame_data[i + 3].faces # << >> /\ raw_coords[i + 3].x = 100

\* C9 as stated: in Scenario E the predicted x of both gap samples is 100.
C9_NoDriftInGap ==
    \A i \in 1..Len(raw_coords) :
        ScenarioE(i) => raw_coords[i + 1].x = 100 /\ raw_coords[i + 2].x = 100

\* C10 as stated: whenever the output mode is "crop", every sampled keyframe
\* of the clip had a subject.
C10_CropMeansAllTracked ==
    (pc = "done" /\ output.mode = "crop") =>
        \A i \in 1..Len(coords) : coords[i].face

\* per-frame entries j .. k are all untracked
UntrackedRun(j, k) == \A m \in j..k : ~frame_coords[m].face

\* the time at which the run ending at entry k is over
RunEnd(k) == IF k = Len(frame_coords) THEN Duration ELSE frame_coords[k + 1].t

\* every untracked stretch of the per-frame path is shorter than the minimum
\* segment duration
GapsAreShort ==
    \A j \in 1..Len(frame_coords) : \A k \in j..Len(frame_coords) :
        UntrackedRun(j, k) => RunEnd(k) - frame_coords[j].t < MIN_SEG_DURATION

\* C10, amended: the output mode is "crop" exactly when the first keyframe had
\* a subject and every untracked stretch of the clip is shorter than the
\* minimum segment duration (1.5 s), so that the merge pass leaves tracked
\* segments only; untracked keyframes inside such stretches are part of coords.
C10_CropMeansGapsMerged ==
    pc = "done" =>
        (output.mode = "crop" <=> (frame_coords[1].face /\ GapsAreShort))

\* a "crop" output whose coords include entries of an untracked keyframe
C10_Witness ==
    /\ pc = "done"
    /\ output.mode = "crop"
    /\ \E i \in 1..Len(coords) : ~coords[i].face
    /\ \E i \in 1..Len(frame_coords) : ~frame_coords[i].face

----------------------------------------------------------------------------
(* C11: the adaptive smoothing step *)

\* the sample the smoothing loop is about to process
SmoothingNow == pc = "smooth" /\ Len(coords) < Len(raw_coords)

\* the first rule of (a) (b) (c) (d) that applies to that sample, with
\* delta = |x - smoothedX| taken before the step
RuleAt ==
    LET rc == raw_coords[Len(coords) + 1]
        delta == Abs(rc.x * FxScale - smoothed_x)
    IN  IF rc.face /\ ~prev_had_face THEN "a"
        ELSE IF delta > SNAP_ZONE * FxScale THEN "b"
        ELSE IF delta > DEAD_ZONE * FxScale THEN "c"
        ELSE "d"

\* sx2 is alpha*x + (1-alpha)*sx for alpha = min(0.9, 0.1 + delta/200), to
\* the resolution the smoothed position is carried at
IsBlend(sx2, x, sx) ==
    LET delta == Abs(x - sx)
        num == Min2(180 * FxScale, 20 * FxScale + delta)
        den == 200 * FxScale
        exact == num * x + (den - num) * sx
    IN  den * sx2 <= exact /\ exact < den * (sx2 + 1)

\* C11: every smoothing step applies exactly the first applicable rule in
\* the order (a) target re-acquired: smoothedX = x; (b) delta > 150:
\* smoothedX = x; (c) delta > 5: smoothedX = alpha*x + (1-alpha)*smoothedX
\* with alpha = min(0.9, 0.1 + delta/200); (d) otherwise smoothedX keeps its
\* value; and the emitted x differs from the previous keyframe's only under
\* (a), (b) or (c).
C11_FirstApplicableRule ==
    [][SmoothingNow /\ Len(coords') = Len(coords) + 1 =>
         LET n == Len(coords)
             x == raw_coords[n + 1].x * FxScale
         IN  /\ RuleAt \in {"a", "b"} => smoothed_x' = x
             /\ RuleAt = "c" => IsBlend(smoothed_x', x, smoothed_x)
             /\ RuleAt = "d" => smoothed_x' = smoothed_x
             /\ coords'[n + 1].x = smoothed_x' \div FxScale
             /\ (n >= 1 /\ coords'[n + 1].x # coords[n].x) => RuleAt # "d"
      ]_vars

\* a clip smoothed to the end in which a target was re-acquired at a distance
\* inside the blend range (rule (a) taking precedence over (c)), a later
\* sample moved by at most the dead zone and was held (d), and another was
\* blended to a position strictly between the old one and its own (c)
C11_Witness ==
    /\ pc = "done"
    /\ Len(coords) = Len(raw_coords)
    /\ \E i \in 1..(Len(coords) - 1) :
         /\ coords[i + 1].face /\ ~coords[i].face
         /\ Abs(raw_coords[i + 1].x - coords[i].x) > DEAD_ZONE
         /\ Abs(raw_coords[i + 1].x - coords[i].x) < SNAP_ZONE
         /\ coords[i + 1].x = raw_coords[i + 1].x
    /\ \E i \in 1..(Len(coords) - 1) :
         /\ coords[i + 1].face /\ coords[i].face
         /\ raw_coords[i + 1].x # raw_coords[i].x
         /\ coords[i + 1].x = coords[i].x
    /\ \E i \in 1..(Len(coords) - 1) :
         /\ coords[i + 1].face /\ coords[i].face
         /\ Min2(coords[i].x, raw_coords[i + 1].x) < coords[i + 1].x
         /\ coords[i + 1].x < Max2(coords[i].x, raw_coords[i + 1].x)

----------------------------------------------------------------------------
(* C12: the first tracked sample with several detections *)

\* a speaker side applies to tracked sample i
SpeakerApplies(i) ==
    /\ get_speaker_at(frame_data[i].t) # NoSpeaker
    /\ get_speaker_at(frame_data[i].t) \in DOMAIN speaker_side

\* tracked sample i has two or more detections, no speaker side applies to
\* it and no earlier sample of the clip had a detection
FirstSightingOfMany(i) ==
    /\ Len(frame_data[i].faces) >= 2
    /\ ~SpeakerApplies(i)
    /\ \A j \in 1..(i - 1) : frame_data[j].faces = << >>

\* the detections of sample i the target is chosen among
CandidateSet(i) ==
    LET faces == frame_data[i].faces
        all == {faces[k] : k \in 1..Len(faces)}
        inner == {f \in all : crop_w < f.cx /\ f.cx < src_w - crop_w}
    IN  IF inner # {} THEN inner ELSE all

\* C12: at a sample with >= 2 detections where no speaker side applies and
\* no subject was tracked in any earlier sample, the target is a
\* largest-area detection among the interior ones (among all when none is
\* interior).
C12_LargestAreaAtFirstSighting ==
    \A i \in 1..Len(raw_coords) :
        FirstSightingOfMany(i) =>
            \E f \in CandidateSet(i) :
                /\ \A g \in CandidateSet(i) : g.area <= f.area
                /\ raw_coords[i].x = ClampX(f.cx - (crop_w \div 2))

----------------------------------------------------------------------------
(* C13: the +2 bonus of the layout classifier *)

\* cx strictly inside the middle 50% of the width
MiddleHalfX(f) == src_w < 4 * f.cx /\ 4 * f.cx < 3 * src_w

\* cy strictly inside the middle 70% of the height
MiddleY(f) == 3 * src_h < 20 * f.cy /\ 20 * f.cy < 17 * src_h

\* counted toward sideCount: cx in the outer 30% / 35% margins
CountedSide(f) == 10 * f.cx < 3 * src_w \/ 20 * f.cx > 13 * src_w

\* counted toward centeredCount
CountedCentered(f) == MiddleHalfX(f) /\ MiddleY(f) /\ ~CountedSide(f)

\* number of detections over all classification samples counted as centered
NumCountedCentered ==
    Cardinality({p \in UNION {{<<i, k>> : k \in 1..Len(sample_faces[i])} :
                                  i \in 1..Len(sample_faces)} :
                   CountedCentered(sample_faces[p[1]][p[2]])})

\* number of detections of classification sample i counted as centered
NumCenteredIn(i) ==
    Cardinality({k \in 1..Len(sample_faces[i]) : CountedCentered(sample_faces[i][k])})

\* number of detections of classification sample i with cx in the middle half
NumMiddleHalfIn(i) ==
    Cardinality({k \in 1..Len(sample_faces[i]) : MiddleHalfX(sample_faces[i][k])})

\* C13 as stated: the +2 bonus goes to exactly the classification samples
\* with at least 2 detections counted as centered (cx in the middle 50%, cy in
\* the middle 70%, not on a side), so centeredCount is the number of centered
\* detections plus 2 for each such sample.
C13_BonusIffTwoCounted ==
    full_detections =
        NumCountedCentered
        + 2 * Cardinality({i \in 1..Len(sample_faces) : NumCenteredIn(i) >= 2})

\* C13 amended: the +2 bonus goes to exactly the classification samples with
\* at least 2 detections whose cx is strictly inside the middle 50% of the
\* width, whatever their cy and whether or not they were counted on a side.
C13_BonusIffTwoInMiddleHalf ==
    full_detections =
        NumCountedCentered
        + 2 * Cardinality({i \in 1..Len(sample_faces) : NumMiddleHalfIn(i) >= 2})

\* a classified clip with a sample that got the bonus for two detections in
\* the middle half of which one was counted on a side, and a sample with two
\* detections that got none
C13_Witness ==
    /\ pc = "handle"
    /\ Len(sample_faces) = NumClsSamples
    /\ \E i \in 1..Len(sample_faces) :
         /\ NumMiddleHalfIn(i) >= 2
         /\ NumCenteredIn(i) < 2
         /\ \E k \in 1..Len(sample_faces[i]) :
              MiddleHalfX(sample_faces[i][k]) /\ CountedSide(sample_faces[i][k])
    /\ \E i \in 1..Len(sample_faces) :
         Len(sample_faces[i]) >= 2 /\ NumMiddleHalfIn(i) < 2

----------------------------------------------------------------------------
(* C14: the identity matcher *)

\* the matched detections of the previous sample, << >> before the first
PrevMatched ==
    IF Len(frame_data) >= 2 THEN frame_data[Len(frame_data) - 1].faces ELSE << >>

\* what the matcher returned for the latest sample
CurrMatched == frame_data[Len(frame_data)].faces

\* Manhattan distance on (cx, cy)
Manhattan(f, g) == Abs(f.cx - g.cx) + Abs(f.cy - g.cy)

\* the permutations of 1..n
Perms(n) == {pi \in [1..n -> 1..n] : \A a, b \in 1..n : a # b => pi[a] # pi[b]}

\* out lists curr in the order pi: position k <= number of previous
\* detections holds a nearest detection to prev[k] among those not taken by
\* an earlier position; the later positions keep their order in curr
GreedyOrder(pi, prev, curr, out) ==
    LET n == Len(curr)
        m == Min2(Len(prev), n)
    IN  /\ \A k \in 1..n : out[k] = curr[pi[k]]
        /\ \A k \in 1..m :
             \A j \in (1..n) \ {pi[h] : h \in 1..(k - 1)} :
                 Manhattan(curr[pi[k]], prev[k]) <= Manhattan(curr[j], prev[k])
        /\ \A k, l \in (m + 1)..n : k < l => pi[k] < pi[l]

\* C14: the matcher returns a permutation of the current sample's
\* detections: for each previous detection in order the unclaimed current
\* detection at the smallest Manhattan distance, then the unmatched ones in
\* their original order; the current list unchanged when either sample has
\* no detections.
C14_MatcherIsGreedyPermutation ==
    frame_data # << >> =>
        /\ Len(CurrMatched) = Len(detected)
        /\ \E pi \in Perms(Len(detected)) :
               GreedyOrder(pi, PrevMatched, detected, CurrMatched)
        /\ (PrevMatched = << >> \/ detected = << >>) => CurrMatched = detected

\* three detections matched against a single previous one that is nearest to
\* the last of them: it moves to the front and the other two follow in order
C14_Witness ==
    /\ frame_data # << >>
    /\ Len(PrevMatched) = 1
    /\ Len(detected) = 3
    /\ CurrMatched = <<detected[3], detected[1], detected[2]>>
    /\ CurrMatched # detected

====
